---- MODULE Spec2Model ----
(***************************************************************************)
(* A model of the two units of the repository:                             *)
(*   - calculator.py: Calculator / AdvancedCalculator and their history;   *)
(*   - scripts/generate_changelog.py: ChangelogGenerator and main().       *)
(*                                                                         *)
(* Python objects are modelled with an explicit heap of list objects, so   *)
(* that aliasing between a calculator's history, another calculator's      *)
(* history and a list handed out by get_history() is something the model   *)
(* can express.  Numbers carry their Python type (int or float); a float   *)
(* is kept as a decimal fixed-point number with two fractional digits      *)
(* (v hundredths, arithmetic truncating towards zero), which stands for    *)
(* the binary64 value.  Python strings are TLA+ strings for the            *)
(* calculator and sequences of one-character strings for the changelog     *)
(* generator, whose regular expression reads them character by character.  *)
(***************************************************************************)
EXTENDS Integers, Sequences, FiniteSets, TLC

VARIABLES
    heap,       \* list objects: id -> sequence of history strings
    hist,       \* calculator instance -> id of the list bound to self.history
    snap,       \* id of the list the caller got from get_history(), 0 if none
    insts,      \* the calculator instances the program has constructed
    cap,        \* the longest history this run lets a list grow to
    wiped,      \* instance -> clear_history() has emptied a non-empty history
    okCount,    \* instance -> successful operations since creation / last clear
    last,       \* the call made by the latest step and its outcome
    message,    \* changelog: the commit message under categorisation
    catResult,  \* changelog: categorize_commit(message)
    commits,    \* changelog: commit records handed to generate_version_section
    section,    \* changelog: lines of the section rendered from commits
    repo,       \* changelog: what the external git tool answers
    run         \* changelog: outcome of main()

calcVars == <<heap, hist, snap, insts, cap, wiped, okCount, last>>
logVars  == <<message, catResult, commits, section, repo, run>>
vars     == <<heap, hist, snap, insts, cap, wiped, okCount, last, message,
              catResult, commits, section, repo, run>>

(***************************************************************************)
(* Bounds of the model.                                                    *)
(***************************************************************************)
MaxHist == 2     \* history length, runs on one calculator
MaxShared == 1   \* history length, runs on two calculators or with a snapshot
MaxFact == 8     \* largest argument of factorial
MaxCommits == 3  \* commits handed to generate_version_section

(***************************************************************************)
(* Python numbers.                                                         *)
(***************************************************************************)
I(n) == [t |-> "int", v |-> n]
F(h) == [t |-> "float", v |-> h]
None == [t |-> "None", v |-> 0]

Hundredths(x) == IF x.t = "int" THEN x.v * 100 ELSE x.v

Abs(n) == IF n < 0 THEN 0 - n ELSE n

\* quotient truncated towards zero
TDiv(n, d) ==
    IF (n < 0) = (d < 0) THEN Abs(n) \div Abs(d) ELSE 0 - (Abs(n) \div Abs(d))

RECURSIVE IntPow(_, _)
IntPow(b, e) == IF e = 0 THEN 1 ELSE b * IntPow(b, e - 1)

\* b ** e in hundredths for b in hundredths, e >= 0
RECURSIVE FixPow(_, _)
FixPow(b, e) == IF e = 0 THEN 100 ELSE TDiv(b * FixPow(b, e - 1), 100)

\* the largest r in lo..hi with r * r <= n, by bisection
RECURSIVE SqrtSearch(_, _, _)
SqrtSearch(n, lo, hi) ==
    IF lo >= hi THEN lo
    ELSE LET mid == (lo + hi + 1) \div 2
         IN  IF mid * mid <= n THEN SqrtSearch(n, mid, hi)
             ELSE SqrtSearch(n, lo, mid - 1)

ISqrt(n) == SqrtSearch(n, 0, IF n < 40000 THEN n ELSE 40000)

IsZero(x) == x.v = 0
IsNegative(x) == x.v < 0

PyAdd(a, b) ==
    IF a.t = "int" /\ b.t = "int" THEN I(a.v + b.v)
    ELSE F(Hundredths(a) + Hundredths(b))

PySub(a, b) ==
    IF a.t = "int" /\ b.t = "int" THEN I(a.v - b.v)
    ELSE F(Hundredths(a) - Hundredths(b))

PyMul(a, b) ==
    IF a.t = "int" /\ b.t = "int" THEN I(a.v * b.v)
    ELSE F(TDiv(Hundredths(a) * Hundredths(b), 100))

\* a / b, true division: always a float; the caller excludes b == 0
PyTrueDiv(a, b) == F(TDiv(Hundredths(a) * 100, Hundredths(b)))

\* base ** exponent for an int exponent.  A negative exponent makes the
\* result a float, and raises ZeroDivisionError on a zero base.
PowRaises(base, exponent) == exponent.v < 0 /\ IsZero(base)

PyPow(base, exponent) ==
    IF exponent.v >= 0
    THEN IF base.t = "int" THEN I(IntPow(base.v, exponent.v))
         ELSE F(FixPow(base.v, exponent.v))
    ELSE F(TDiv(100 * 100, FixPow(Hundredths(base), 0 - exponent.v)))

\* float(number ** 0.5) for number >= 0
PySqrt(number) == F(ISqrt(Hundredths(number) * 100))

(***************************************************************************)
(* str() of a number, as an f-string field renders it.                     *)
(***************************************************************************)
FloatStr(h) ==
    LET m  == Abs(h)
        fr == m % 100
    IN  (IF h < 0 THEN "-" ELSE "") \o ToString(m \div 100) \o "." \o
        (IF fr % 10 = 0 THEN ToString(fr \div 10)
         ELSE ToString(fr \div 10) \o ToString(fr % 10))

Str(x) == IF x.t = "int" THEN ToString(x.v) ELSE FloatStr(x.v)

\* the module is ASCII: this stands for the character U+221A
RadicalSign == "(sqrt)"

(***************************************************************************)
(* Outcomes of a method call: the exception raised ("none" when the call   *)
(* returns), the value returned, and the contents of self.history after.   *)
(***************************************************************************)
DivideByZero     == "ValueError: Cannot divide by zero"
NegativeSqrt     == "ValueError: Cannot calculate square root of negative number"
FactorialNotInt  == "ValueError: Factorial requires an integer"
FactorialNegative == "ValueError: Factorial not defined for negative numbers"
ZeroDivision     == "ZeroDivisionError"

Returns(result, history) == [exc |-> "none", ret |-> result, history |-> history]
Raises(exc, history)     == [exc |-> exc, ret |-> None, history |-> history]

(***************************************************************************)
(* The methods of Calculator.  h is the list bound to self.history.        *)
(***************************************************************************)
\* add with the history.append line lost
add_unrecorded(h, a, b) == Returns(PyAdd(a, b), h)

add(h, a, b) ==
    LET result == PyAdd(a, b)
    IN  Returns(result,
                Append(h, Str(a) \o " + " \o Str(b) \o " = " \o Str(result)))

subtract(h, a, b) ==
    LET result == PySub(a, b)
    IN  Returns(result,
                Append(h, Str(a) \o " - " \o Str(b) \o " = " \o Str(result)))

multiply(h, a, b) ==
    LET result == PyMul(a, b)
    IN  Returns(result,
                Append(h, Str(a) \o " * " \o Str(b) \o " = " \o Str(result)))

\* divide guarding with "b is 0", which a float zero passes
divide_int_zero_only(h, a, b) ==
    IF b = I(0) THEN Raises(DivideByZero, h)
    ELSE IF IsZero(b) THEN Raises(ZeroDivision, h)
    ELSE LET result == PyTrueDiv(a, b)
         IN  Returns(result,
                     Append(h, Str(a) \o " / " \o Str(b) \o " = " \o Str(result)))

divide(h, a, b) ==
    IF IsZero(b)
    THEN Raises(DivideByZero, h)
    ELSE LET result == PyTrueDiv(a, b)
         IN  Returns(result,
                     Append(h, Str(a) \o " / " \o Str(b) \o " = " \o Str(result)))

power(h, base, exponent) ==
    IF PowRaises(base, exponent)
    THEN Raises(ZeroDivision, h)
    ELSE LET result == PyPow(base, exponent)
         IN  Returns(result,
                     Append(h, Str(base) \o " ^ " \o Str(exponent) \o " = "
                               \o Str(result)))

sqrt(h, number) ==
    IF IsNegative(number)
    THEN Raises(NegativeSqrt, h)
    ELSE LET result == PySqrt(number)
         IN  Returns(result,
                     Append(h, RadicalSign \o Str(number) \o " = " \o Str(result)))

get_history(h) == h

\* clear_history written "self.history.clear" without the call
clear_history_not_called(h) == h

clear_history(h) == << >>

(***************************************************************************)
(* The methods AdvancedCalculator adds.                                    *)
(***************************************************************************)
\* percentage with the record put first: self.history.insert(0, ...)
percentage_prepend(h, number, percent) ==
    LET result == PyTrueDiv(PyMul(number, percent), I(100))
    IN  Returns(result,
                <<Str(percent) \o "% of " \o Str(number) \o " = " \o Str(result)>>
                    \o h)

percentage(h, number, percent) ==
    LET result == PyTrueDiv(PyMul(number, percent), I(100))
    IN  Returns(result,
                Append(h, Str(percent) \o "% of " \o Str(number) \o " = "
                          \o Str(result)))

\* the loop over range(2, n), one factor short
RECURSIVE FactorialLoopShort(_, _, _)
FactorialLoopShort(i, n, result) ==
    IF i >= n THEN result ELSE FactorialLoopShort(i + 1, n, result * i)

\* for i in range(2, n + 1): result *= i, entered with result = 1
RECURSIVE FactorialLoop(_, _, _)
FactorialLoop(i, n, result) ==
    IF i >= n + 1 THEN result ELSE FactorialLoop(i + 1, n, result * i)

FactorialValue(n) == IF n \in {0, 1} THEN 1 ELSE FactorialLoop(2, n, 1)

\* factorial without the n < 0 check: the loop body never runs
factorial_no_sign_check(h, n) ==
    IF n.t # "int" THEN Raises(FactorialNotInt, h)
    ELSE LET result == I(FactorialValue(n.v))
         IN  Returns(result, Append(h, Str(n) \o "! = " \o Str(result)))

factorial(h, n) ==
    IF n.t # "int" THEN Raises(FactorialNotInt, h)
    ELSE IF n.v < 0 THEN Raises(FactorialNegative, h)
    ELSE LET result == I(FactorialValue(n.v))
         IN  Returns(result, Append(h, Str(n) \o "! = " \o Str(result)))

(***************************************************************************)
(* Calculator objects.  Instance 1 is a Calculator, instance 2 an          *)
(* AdvancedCalculator; list object SnapshotId is the one get_history()     *)
(* allocates for its caller.                                               *)
(***************************************************************************)
Instances == {1, 2}
Kind(i) == IF i = 1 THEN "Calculator" ELSE "AdvancedCalculator"
SnapshotId == 3
ListIds == Instances \cup {SnapshotId}

\* __init__ binding one list shared by every instance (a class attribute
\* or a mutable default argument)
init_history_shared(i) == 1

\* __init__: self.history = [] binds a list of the instance's own
init_history(i) == i

\* get_history returning self.history itself
copy_target_alias(i) == hist[i]

\* get_history: self.history.copy() is a new list object
copy_target(i) == SnapshotId

History(i) == heap[hist[i]]

NoCall == [inst |-> 0, op |-> "__init__", args |-> << >>, exc |-> "none",
           ret |-> None]

CalcInit(constructed, bound) ==
    /\ insts = constructed
    /\ cap = bound
    /\ heap = [id \in ListIds |-> << >>]
    /\ hist = [i \in Instances |-> init_history(i)]
    /\ snap = 0
    /\ okCount = [i \in Instances |-> 0]
    /\ wiped = [i \in Instances |-> FALSE]
    /\ last = NoCall

\* One call of an arithmetic method on instance i with outcome r.
Call(i, op, args, r) ==
    /\ i \in insts
    /\ r.exc = "none" => Len(History(i)) < cap /\ okCount[i] < cap
    /\ heap' = [heap EXCEPT ![hist[i]] = r.history]
    /\ okCount' = [okCount EXCEPT ![i] = IF r.exc = "none" THEN @ + 1 ELSE @]
    /\ last' = [inst |-> i, op |-> op, args |-> args, exc |-> r.exc,
                ret |-> r.ret]
    /\ UNCHANGED <<hist, snap, insts, cap, wiped, logVars>>

Add(i, a, b)      == Call(i, "add", <<a, b>>, add(History(i), a, b))
Subtract(i, a, b) == Call(i, "subtract", <<a, b>>, subtract(History(i), a, b))
Multiply(i, a, b) == Call(i, "multiply", <<a, b>>, multiply(History(i), a, b))
Divide(i, a, b)   == Call(i, "divide", <<a, b>>, divide(History(i), a, b))
Power(i, a, b)    == Call(i, "power", <<a, b>>, power(History(i), a, b))
Sqrt(i, x)        == Call(i, "sqrt", <<x>>, sqrt(History(i), x))

Percentage(i, a, b) ==
    /\ Kind(i) = "AdvancedCalculator"
    /\ Call(i, "percentage", <<a, b>>, percentage(History(i), a, b))

Factorial(i, n) ==
    /\ Kind(i) = "AdvancedCalculator"
    /\ Call(i, "factorial", <<n>>, factorial(History(i), n))

ClearHistory(i) ==
    /\ i \in insts
    /\ heap' = [heap EXCEPT ![hist[i]] = clear_history(@)]
    /\ okCount' = [okCount EXCEPT ![i] = 0]
    /\ wiped' = [wiped EXCEPT ![i] = @ \/ okCount[i] > 0]
    /\ last' = [inst |-> i, op |-> "clear_history", args |-> << >>,
                exc |-> "none", ret |-> None]
    /\ UNCHANGED <<hist, snap, insts, cap, logVars>>

GetHistory(i) ==
    /\ i \in insts
    /\ heap' = [heap EXCEPT ![copy_target(i)] = get_history(History(i))]
    /\ snap' = copy_target(i)
    /\ last' = [inst |-> i, op |-> "get_history", args |-> << >>,
                exc |-> "none", ret |-> None]
    /\ UNCHANGED <<hist, insts, cap, wiped, okCount, logVars>>

(***************************************************************************)
(* What the caller of get_history() may do to the list it was given.       *)
(***************************************************************************)
CallerEntry == "0 + 0 = 0"

Mutation(op, contents) ==
    /\ snap # 0
    /\ heap' = [heap EXCEPT ![snap] = contents]
    /\ last' = [inst |-> 0, op |-> op, args |-> << >>, exc |-> "none",
                ret |-> None]
    /\ UNCHANGED <<hist, snap, insts, cap, wiped, okCount, logVars>>

SnapshotAppend ==
    /\ snap # 0
    /\ Len(heap[snap]) <= cap
    /\ Mutation("list.append", Append(heap[snap], CallerEntry))

SnapshotRemove ==
    /\ snap # 0
    /\ heap[snap] # << >>
    /\ Mutation("list.pop", SubSeq(heap[snap], 1, Len(heap[snap]) - 1))

SnapshotReplace ==
    /\ snap # 0
    /\ \E k \in 1..Len(heap[snap]) :
           Mutation("list.__setitem__", [heap[snap] EXCEPT ![k] = CallerEntry])

(***************************************************************************)
(* Inputs of the calculator runs.                                          *)
(***************************************************************************)
Operands == {<<I(2), I(3)>>, <<I(10), I(0)>>, <<F(750), F(150)>>,
             <<I(12), F(0)>>}
PowerOperands == {<<I(2), I(3)>>, <<I(0), I(-1)>>, <<I(2), I(-1)>>}
SqrtOperands == {I(16), I(-16), F(-50), F(225)}
PercentOperands == {<<I(200), I(15)>>}
FactorialOperands == {I(0), I(5), I(-5), F(550)}

FewOperands == {<<I(1), I(2)>>, <<I(3), I(0)>>}
FewPowerOperands == {<<I(2), I(3)>>}
FewSqrtOperands == {I(16)}
FewFactorialOperands == {I(3)}

Arithmetic(i, operands, powers, roots, percents, factorials) ==
    \/ \E p \in operands : Add(i, p[1], p[2])
    \/ \E p \in operands : Subtract(i, p[1], p[2])
    \/ \E p \in operands : Multiply(i, p[1], p[2])
    \/ \E p \in operands : Divide(i, p[1], p[2])
    \/ \E p \in powers : Power(i, p[1], p[2])
    \/ \E x \in roots : Sqrt(i, x)
    \/ \E p \in percents : Percentage(i, p[1], p[2])
    \/ \E n \in factorials : Factorial(i, n)

LogIdle ==
    /\ message = << >>
    /\ catResult = << >>
    /\ commits = << >>
    /\ section = << >>
    /\ repo = << >>
    /\ run = << >>

\* A program that constructs one calculator, of either class, and uses it.
CalcNext ==
    \E i \in Instances :
        \/ Arithmetic(i, Operands, PowerOperands, SqrtOperands,
                      PercentOperands, FactorialOperands)
        \/ ClearHistory(i)

SpecCalcInit == (\E i \in Instances : CalcInit({i}, MaxHist)) /\ LogIdle
SpecCalc == SpecCalcInit /\ [][CalcNext]_vars

\* A program that constructs a Calculator and an AdvancedCalculator.
TwoNext ==
    \E i \in Instances :
        \/ Arithmetic(i, FewOperands, FewPowerOperands, FewSqrtOperands,
                      PercentOperands, FewFactorialOperands)
        \/ ClearHistory(i)

SpecTwoInit == CalcInit(Instances, MaxShared) /\ LogIdle
SpecTwo == SpecTwoInit /\ [][TwoNext]_vars

\* A program that asks its calculator for the history and edits what it got.
SnapNext ==
    \/ \E i \in Instances :
           \/ Arithmetic(i, FewOperands, FewPowerOperands, FewSqrtOperands,
                         PercentOperands, FewFactorialOperands)
           \/ ClearHistory(i)
           \/ GetHistory(i)
    \/ SnapshotAppend
    \/ SnapshotRemove
    \/ SnapshotReplace

SpecSnapInit == (\E i \in Instances : CalcInit({i}, MaxShared)) /\ LogIdle
SpecSnap == SpecSnapInit /\ [][SnapNext]_vars

\* factorial applied to every argument up to MaxFact.
FactNext ==
    \/ \E n \in 0..MaxFact : Factorial(2, I(n))
    \/ \E n \in {I(-1), F(300)} : Factorial(2, n)
    \/ ClearHistory(2)

SpecFactInit == CalcInit({2}, MaxHist) /\ LogIdle
SpecFact == SpecFactInit /\ [][FactNext]_vars

(***************************************************************************)
(* Properties of the calculator.                                           *)
(***************************************************************************)
ArithmeticOps == {"add", "subtract", "multiply", "divide", "power", "sqrt",
                  "percentage", "factorial"}
CallerOps == {"list.append", "list.pop", "list.__setitem__"}

\* the outcome of method op called with args on a history h
Outcome(op, h, args) ==
    CASE op = "add"        -> add(h, args[1], args[2])
      [] op = "subtract"   -> subtract(h, args[1], args[2])
      [] op = "multiply"   -> multiply(h, args[1], args[2])
      [] op = "divide"     -> divide(h, args[1], args[2])
      [] op = "power"      -> power(h, args[1], args[2])
      [] op = "sqrt"       -> sqrt(h, args[1])
      [] op = "percentage" -> percentage(h, args[1], args[2])
      [] op = "factorial"  -> factorial(h, args[1])

\* C1: the length of a calculator's history equals the number of operations
\* that completed successfully since the instance was created or since its
\* last clear_history, whichever is later.
C1_HistoryLength == \A i \in insts : Len(History(i)) = okCount[i]

C1_Witness ==
    \E i \in insts :
        wiped[i] /\ okCount[i] = 2 /\ Len(History(i)) = 2 /\ last.exc # "none"

\* C2: divide(a, b) with b == 0 raises the divide-by-zero error in every
\* state and leaves every list as it was; with b != 0 it never raises it.
C2_DivideByZero ==
    [][last'.op = "divide" =>
          LET b == last'.args[2]
          IN  /\ IsZero(b) => last'.exc = DivideByZero /\ heap' = heap
              /\ ~IsZero(b) => last'.exc # DivideByZero]_vars

C2_Witness ==
    /\ last.op = "divide"
    /\ last.args[2] = F(0)
    /\ last.exc = DivideByZero
    /\ Len(History(last.inst)) = 2

\* C4: a list returned by get_history() is a snapshot: the caller appending
\* to it, removing from it or replacing an entry of it never changes a
\* calculator's history, and a later operation or clear_history never
\* changes the list that was returned.
C4_Snapshot ==
    [][/\ last'.op \in CallerOps =>
              \A i \in insts : heap'[hist'[i]] = heap[hist[i]]
       /\ (snap # 0 /\ last'.op \in ArithmeticOps \cup {"clear_history"}) =>
              heap'[snap'] = heap[snap]]_vars

C4_Witness ==
    \E i \in insts :
        /\ snap # 0
        /\ last.op = "list.__setitem__"
        /\ History(i) # << >>
        /\ heap[snap] # History(i)

\* C5: clear_history() leaves the history empty, and the next operation
\* that succeeds after it leaves a history of length 1 holding only that
\* operation's record.
C5_ClearThenFresh ==
    /\ [](last.op = "clear_history" => History(last.inst) = << >>)
    /\ [][\A i \in insts :
             (/\ wiped[i]
              /\ okCount[i] = 0
              /\ last'.inst = i
              /\ last'.op \in ArithmeticOps
              /\ last'.exc = "none")
             => /\ Len(heap'[hist'[i]]) = 1
                /\ heap'[hist'[i]] =
                       Outcome(last'.op, << >>, last'.args).history]_vars

C5_Witness ==
    \E i \in insts :
        /\ wiped[i]
        /\ okCount[i] = 1
        /\ Len(History(i)) = 1
        /\ last.inst = i
        /\ last.op \in ArithmeticOps
        /\ last.exc = "none"

\* C6: two calculator instances never share history: a call on one
\* instance leaves the history of the other instance unchanged.
C6_Isolation ==
    [][\A i \in insts :
           last'.inst # i => heap'[hist'[i]] = heap[hist[i]]]_vars

C6_Witness ==
    /\ insts = Instances
    /\ last.inst = 1
    /\ last.op = "clear_history"
    /\ wiped[1]
    /\ History(1) = << >>
    /\ Len(History(2)) = 1

\* n! as the product 1 * 2 * ... * n
RECURSIVE ProductUpTo(_)
ProductUpTo(n) == IF n = 0 THEN 1 ELSE n * ProductUpTo(n - 1)

\* C7: for every non-negative integer n up to MaxFact, factorial(n) returns
\* n!: 1 for n in {0, 1}, and n * factorial(n - 1) for n >= 2.
C7_Factorial ==
    (last.op = "factorial" /\ last.exc = "none") =>
        LET n == last.args[1].v
        IN  /\ last.ret = I(ProductUpTo(n))
            /\ n \in {0, 1} => last.ret = I(1)
            /\ n >= 2 => last.ret =
                   I(n * factorial(<< >>, I(n - 1)).ret.v)

C7_Witness ==
    /\ last.op = "factorial"
    /\ last.args = <<I(5)>>
    /\ last.ret = I(120)
    /\ History(2) = <<"0! = 1", "5! = 120">>

\* C8: sqrt(x) raises the negative-argument error for every x < 0, and
\* factorial(n) raises an invalid-argument error for every n that is
\* negative or not an int; these failing calls leave every list as it was.
C8_InvalidArguments ==
    [][/\ (last'.op = "sqrt" /\ IsNegative(last'.args[1])) =>
              last'.exc = NegativeSqrt /\ heap' = heap
       /\ (last'.op = "factorial"
             /\ (last'.args[1].t # "int" \/ IsNegative(last'.args[1]))) =>
              /\ last'.exc \in {FactorialNotInt, FactorialNegative}
              /\ heap' = heap]_vars

C8_Witness ==
    /\ last.op = "factorial"
    /\ last.args = <<I(-5)>>
    /\ last.exc = FactorialNegative
    /\ Len(History(2)) = 2

\* the record of a call: its operands and the value it returned
Record(op, args, ret) ==
    CASE op = "add"        -> Str(args[1]) \o " + " \o Str(args[2]) \o " = " \o Str(ret)
      [] op = "subtract"   -> Str(args[1]) \o " - " \o Str(args[2]) \o " = " \o Str(ret)
      [] op = "multiply"   -> Str(args[1]) \o " * " \o Str(args[2]) \o " = " \o Str(ret)
      [] op = "divide"     -> Str(args[1]) \o " / " \o Str(args[2]) \o " = " \o Str(ret)
      [] op = "power"      -> Str(args[1]) \o " ^ " \o Str(args[2]) \o " = " \o Str(ret)
      [] op = "sqrt"       -> RadicalSign \o Str(args[1]) \o " = " \o Str(ret)
      [] op = "percentage" -> Str(args[2]) \o "% of " \o Str(args[1]) \o " = " \o Str(ret)
      [] op = "factorial"  -> Str(args[1]) \o "! = " \o Str(ret)

\* C13: every operation that succeeds, of Calculator or of AdvancedCalculator,
\* leaves the instance bound to the same history list, that list one entry
\* longer, its earlier entries as they were and in their order, and its last
\* entry the record of the operands of the call and of the value returned.
C13_AppendOnly ==
    [][(last'.op \in ArithmeticOps /\ last'.exc = "none") =>
          LET i      == last'.inst
              before == heap[hist[i]]
              after  == heap'[hist'[i]]
          IN  /\ hist' = hist
              /\ Len(after) = Len(before) + 1
              /\ SubSeq(after, 1, Len(before)) = before
              /\ after[Len(after)] = Record(last'.op, last'.args, last'.ret)]_vars

C13_Witness ==
    /\ last.op = "percentage"
    /\ last.exc = "none"
    /\ last.inst = 2
    /\ Len(History(2)) = 2
    /\ History(2)[2] = Record("percentage", last.args, last.ret)
    /\ History(2)[1] # History(2)[2]

(***************************************************************************)
(* Python strings of the changelog generator: sequences of one-character   *)
(* strings.                                                                *)
(***************************************************************************)
LowerLetters == {"a", "b", "c", "d", "e", "f", "g", "h", "i", "j", "k", "l", "m",
                 "n", "o", "p", "q", "r", "s", "t", "u", "v", "w", "x", "y", "z"}
UpperLetters == {"A", "B", "C", "D", "E", "F", "G", "H", "I", "J", "K", "L", "M",
                 "N", "O", "P", "Q", "R", "S", "T", "U", "V", "W", "X", "Y", "Z"}
Digits == {"0", "1", "2", "3", "4", "5", "6", "7", "8", "9"}

\* \w
WordChars == LowerLetters \cup UpperLetters \cup Digits \cup {"_"}

LowerOf ==
    [c \in UpperLetters |->
        CASE c = "A" -> "a" [] c = "B" -> "b" [] c = "C" -> "c" [] c = "D" -> "d"
          [] c = "E" -> "e" [] c = "F" -> "f" [] c = "G" -> "g" [] c = "H" -> "h"
          [] c = "I" -> "i" [] c = "J" -> "j" [] c = "K" -> "k" [] c = "L" -> "l"
          [] c = "M" -> "m" [] c = "N" -> "n" [] c = "O" -> "o" [] c = "P" -> "p"
          [] c = "Q" -> "q" [] c = "R" -> "r" [] c = "S" -> "s" [] c = "T" -> "t"
          [] c = "U" -> "u" [] c = "V" -> "v" [] c = "W" -> "w" [] c = "X" -> "x"
          [] c = "Y" -> "y" [] c = "Z" -> "z"]

\* str.lower()
Lower(s) == [k \in 1..Len(s) |-> IF s[k] \in UpperLetters THEN LowerOf[s[k]] ELSE s[k]]

\* self.commit_types, in the order of the dict literal
commit_types ==
    << [key |-> <<"f", "e", "a", "t">>,
        title |-> <<"F", "e", "a", "t", "u", "r", "e", "s">>],
       [key |-> <<"f", "i", "x">>,
        title |-> <<"B", "u", "g", " ", "F", "i", "x", "e", "s">>],
       [key |-> <<"d", "o", "c", "s">>,
        title |-> <<"D", "o", "c", "u", "m", "e", "n", "t", "a", "t", "i", "o",
                  "n">>],
       [key |-> <<"s", "t", "y", "l", "e">>,
        title |-> <<"S", "t", "y", "l", "e", "s">>],
       [key |-> <<"r", "e", "f", "a", "c", "t", "o", "r">>,
        title |-> <<"C", "o", "d", "e", " ", "R", "e", "f", "a", "c", "t", "o",
                  "r", "i", "n", "g">>],
       [key |-> <<"p", "e", "r", "f">>,
        title |-> <<"P", "e", "r", "f", "o", "r", "m", "a", "n", "c", "e">>],
       [key |-> <<"t", "e", "s", "t">>,
        title |-> <<"T", "e", "s", "t", "s">>],
       [key |-> <<"b", "u", "i", "l", "d">>,
        title |-> <<"B", "u", "i", "l", "d", " ", "S", "y", "s", "t", "e", "m">>],
       [key |-> <<"c", "i">>,
        title |-> <<"C", "I", "/", "C", "D">>],
       [key |-> <<"c", "h", "o", "r", "e">>,
        title |-> <<"C", "h", "o", "r", "e", "s">>],
       [key |-> <<"r", "e", "v", "e", "r", "t">>,
        title |-> <<"R", "e", "v", "e", "r", "t", "s">>] >>

TypeKeys == {commit_types[k].key : k \in 1..Len(commit_types)}

TitleOf(key) ==
    LET k == CHOOSE j \in 1..Len(commit_types) : commit_types[j].key = key
    IN  commit_types[k].title

Other == <<"o", "t", "h", "e", "r">>

(***************************************************************************)
(* categorize_commit: re.match of                                          *)
(*     ^(\w+)(?:\(([^)]+)\))?: (.+)$                                       *)
(* A match is described by the length k of group 1, whether the optional   *)
(* group took part, and the length j of group 2; group 3 is what follows   *)
(* ": ".  "." matches no newline, and "$" matches at the end or before a   *)
(* final newline.                                                          *)
(***************************************************************************)
NoScope == 0

\* the position after the optional group
AfterScope(k, j) == IF j = NoScope THEN k + 1 ELSE k + j + 3

\* where group 3 ends: "$" matches at the end or before a final newline
DescriptionEnd(m) == IF m[Len(m)] = "\n" THEN Len(m) - 1 ELSE Len(m)

IsMatch(m, k, j) ==
    /\ k \in 1..Len(m)
    /\ \A q \in 1..k : m[q] \in WordChars
    /\ j # NoScope =>
          /\ k + j + 2 <= Len(m)
          /\ m[k + 1] = "("
          /\ \A q \in (k + 2)..(k + j + 1) : m[q] # ")"
          /\ m[k + j + 2] = ")"
    /\ LET p == AfterScope(k, j)
       IN  /\ p + 2 <= Len(m)
           /\ m[p] = ":"
           /\ m[p + 1] = " "
           /\ p + 2 <= DescriptionEnd(m)
           /\ \A q \in (p + 2)..DescriptionEnd(m) : m[q] # "\n"

Matches(m) ==
    {c \in (1..Len(m)) \X (0..Len(m)) : IsMatch(m, c[1], c[2])}

\* the match the backtracking search reaches first: the quantifiers are
\* greedy, so the longest group 1, then the optional group taken, then the
\* longest group 2
FirstMatch(found) ==
    CHOOSE c \in found :
        \A d \in found :
            \/ c[1] > d[1]
            \/ c[1] = d[1] /\ c[2] >= d[2]

Stars == <<"*", "*">>
StarsColon == <<"*", "*", ":", " ">>

\* categorize_commit with the commit type compared as matched, not lowered
categorize_commit_case_sensitive(m) ==
    LET Typed(commit_type, j, scope, description) ==
            IF commit_type \in TypeKeys
            THEN IF j # NoScope
                 THEN [type |-> commit_type,
                       cleaned |-> Stars \o scope \o StarsColon \o description]
                 ELSE [type |-> commit_type, cleaned |-> description]
            ELSE [type |-> Other, cleaned |-> m]
        Groups(k, j) ==
            Typed(SubSeq(m, 1, k), j,
                  SubSeq(m, k + 2, k + j + 1),
                  SubSeq(m, AfterScope(k, j) + 2, DescriptionEnd(m)))
        Matched(c) == Groups(c[1], c[2])
        Searched(found) ==
            IF found = {} THEN [type |-> Other, cleaned |-> m]
            ELSE Matched(FirstMatch(found))
    IN  Searched(Matches(m))

categorize_commit(m) ==
    LET Typed(commit_type, j, scope, description) ==
            IF commit_type \in TypeKeys
            THEN IF j # NoScope
                 THEN [type |-> commit_type,
                       cleaned |-> Stars \o scope \o StarsColon \o description]
                 ELSE [type |-> commit_type, cleaned |-> description]
            ELSE [type |-> Other, cleaned |-> m]
        Groups(k, j) ==
            Typed(Lower(SubSeq(m, 1, k)), j,
                  SubSeq(m, k + 2, k + j + 1),
                  SubSeq(m, AfterScope(k, j) + 2, DescriptionEnd(m)))
        Matched(c) == Groups(c[1], c[2])
        Searched(found) ==
            IF found = {} THEN [type |-> Other, cleaned |-> m]
            ELSE Matched(FirstMatch(found))
    IN  Searched(Matches(m))

(***************************************************************************)
(* Commit messages to categorise: every way of putting together a lead, a  *)
(* word, a scope, a separator and a rest, well formed or not.  A subject   *)
(* line that git prints holds no newline.                                  *)
(***************************************************************************)
Leads ==
    {<< >>,
     <<" ">>}

Words ==
    {<<"f", "e", "a", "t">>,
     <<"f", "i", "x">>,
     <<"d", "o", "c", "s">>,
     <<"s", "t", "y", "l", "e">>,
     <<"r", "e", "f", "a", "c", "t", "o", "r">>,
     <<"p", "e", "r", "f">>,
     <<"t", "e", "s", "t">>,
     <<"b", "u", "i", "l", "d">>,
     <<"c", "i">>,
     <<"c", "h", "o", "r", "e">>,
     <<"r", "e", "v", "e", "r", "t">>,
     <<"C", "I">>,
     <<"F", "e", "a", "t">>,
     <<"c", "i", "x">>,
     <<"w", "i", "p">>,
     <<"f", "i", "x", "_", "1">>,
     <<"r", "a", "n", "d", "o", "m">>,
     << >>}

Scopes ==
    {<< >>,
     <<"(", "a", "p", "i", ")">>,
     <<"(", ")">>,
     <<"(", "a", "p", "i">>,
     <<"a", "p", "i", ")">>,
     <<"(", "a", ")", "(", "b", ")">>,
     <<"(", "(", "a", ")">>,
     <<"(", "a", " ", "b", ")">>}

Separators ==
    {<<":", " ">>,
     <<":">>,
     <<" ">>,
     << >>}

Rests ==
    {<< >>,
     <<"x">>,
     <<"a", "d", "d", " ", "e", "n", "d", "p", "o", "i", "n", "t">>,
     <<"a", "d", "d", ":", " ", "i", "t">>,
     <<"t", "e", "x", "t">>}

Messages ==
    {l \o w \o s \o p \o r :
        l \in Leads, w \in Words, s \in Scopes, p \in Separators, r \in Rests}

\* nothing categorised yet
Pending == [type |-> << >>, cleaned |-> << >>]

Categorize ==
    /\ catResult = Pending
    /\ catResult' = categorize_commit(message)
    /\ UNCHANGED <<calcVars, message, commits, section, repo, run>>

CalcIdle == CalcInit({}, 0)

SpecCatInit ==
    /\ CalcIdle
    /\ message \in Messages
    /\ catResult = Pending
    /\ commits = << >>
    /\ section = << >>
    /\ repo = << >>
    /\ run = << >>

SpecCat == SpecCatInit /\ [][Categorize]_vars

(***************************************************************************)
(* Properties of categorize_commit.                                        *)
(***************************************************************************)
\* the ways of reading m as  word [ "(" scope ")" ] ": " rest : a is the
\* length of the word and b the length of the scope, 0 for no scope
FormWord(m, f) == SubSeq(m, 1, f[1])
FormScope(m, f) == SubSeq(m, f[1] + 2, f[1] + f[2] + 1)
FormRest(m, f) ==
    SubSeq(m, f[1] + (IF f[2] = 0 THEN 0 ELSE f[2] + 2) + 3, Len(m))

Forms(m) ==
    {f \in (1..Len(m)) \X (0..Len(m)) :
        /\ f[1] + (IF f[2] = 0 THEN 0 ELSE f[2] + 2) + 3 <= Len(m)
        /\ \A q \in 1..Len(FormWord(m, f)) : FormWord(m, f)[q] \in WordChars
        /\ \A q \in 1..Len(FormScope(m, f)) : FormScope(m, f)[q] # ")"
        /\ FormRest(m, f) # << >>
        /\ m = FormWord(m, f)
                \o (IF f[2] = 0 THEN << >>
                    ELSE <<"(">> \o FormScope(m, f) \o <<")">>)
                \o <<":", " ">> \o FormRest(m, f)}

\* C9: when the message reads  word [ "(" scope ")" ] ": " rest  and the
\* word, lowered, is one of the eleven commit types, categorize_commit
\* returns that type with "**scope**: rest", or with rest alone when there
\* is no scope; in every other case it returns "other" and the message as
\* it is.  The type returned is one of the eleven or "other".
C9_Categorize ==
    catResult # Pending =>
    LET typed == {f \in Forms(message) : Lower(FormWord(message, f)) \in TypeKeys}
    IN  /\ typed # {} =>
              \E f \in typed :
                  /\ catResult.type = Lower(FormWord(message, f))
                  /\ catResult.cleaned =
                        IF f[2] = 0 THEN FormRest(message, f)
                        ELSE <<"*", "*">> \o FormScope(message, f)
                               \o <<"*", "*", ":", " ">> \o FormRest(message, f)
        /\ typed = {} =>
              catResult = [type |-> Other, cleaned |-> message]
        /\ catResult.type \in TypeKeys \cup {Other}

C9_Witness ==
    /\ message = 
          <<"F", "e", "a", "t", "(", "a", "p", "i", ")", ":", " ", "a",
          "d", "d", " ", "e", "n", "d", "p", "o", "i", "n", "t">>
    /\ catResult.type = <<"f", "e", "a", "t">>
    /\ catResult.cleaned = 
          <<"*", "*", "a", "p", "i", "*", "*", ":", " ", "a", "d", "d",
          " ", "e", "n", "d", "p", "o", "i", "n", "t">>

(***************************************************************************)
(* String helpers.                                                         *)
(***************************************************************************)
\* sep.join(parts)
RECURSIVE Join(_, _)
Join(parts, sep) ==
    IF parts = << >> THEN << >>
    ELSE IF Len(parts) = 1 THEN parts[1]
    ELSE parts[1] \o sep \o Join(Tail(parts), sep)

\* s.split(ch) for a one-character separator: never an empty list
RECURSIVE Split(_, _)
Split(s, ch) ==
    IF \A q \in 1..Len(s) : s[q] # ch THEN <<s>>
    ELSE LET q == CHOOSE q \in 1..Len(s) :
                      s[q] = ch /\ \A r \in 1..(q - 1) : s[r] # ch
         IN  <<SubSeq(s, 1, q - 1)>> \o Split(SubSeq(s, q + 1, Len(s)), ch)

Whitespace == {" ", "\n", "\t", "\r"}

\* s.strip()
RECURSIVE Strip(_)
Strip(s) ==
    IF s = << >> THEN s
    ELSE IF s[1] \in Whitespace THEN Strip(Tail(s))
    ELSE IF s[Len(s)] \in Whitespace THEN Strip(SubSeq(s, 1, Len(s) - 1))
    ELSE s

\* s[:n]
Prefix(s, n) == SubSeq(s, 1, IF Len(s) < n THEN Len(s) ELSE n)

StartsWith(s, p) == Len(s) >= Len(p) /\ SubSeq(s, 1, Len(p)) = p

(***************************************************************************)
(* group_commits_by_type and generate_version_section.  A commit is a      *)
(* record of hash, message, author and date; grouping adds cleaned_message *)
(* and type.  The dict returned by group_commits_by_type is a function on  *)
(* the twelve types, an absent key being an empty list.                    *)
(***************************************************************************)
AllTypes == TypeKeys \cup {Other}

Annotated(commit) ==
    LET With(c) ==
            [hash |-> commit.hash, message |-> commit.message,
             author |-> commit.author, date |-> commit.date,
             cleaned_message |-> c.cleaned, type |-> c.type]
    IN  With(categorize_commit(commit.message))

\* grouping that puts each commit first in its list
RECURSIVE GroupLoopPrepend(_, _, _)
GroupLoopPrepend(commit_list, i, grouped) ==
    IF i > Len(commit_list) THEN grouped
    ELSE LET Put(commit) ==
                 GroupLoopPrepend(commit_list, i + 1,
                     [grouped EXCEPT ![commit.type] = <<commit>> \o @])
         IN  Put(Annotated(commit_list[i]))

\* for commit in commits: grouped[commit_type].append(commit)
RECURSIVE GroupLoop(_, _, _)
GroupLoop(commit_list, i, grouped) ==
    IF i > Len(commit_list) THEN grouped
    ELSE LET Put(commit) ==
                 GroupLoop(commit_list, i + 1,
                     [grouped EXCEPT ![commit.type] = Append(@, commit)])
         IN  Put(Annotated(commit_list[i]))

group_commits_by_type(commit_list) ==
    GroupLoop(commit_list, 1, [t \in AllTypes |-> << >>])

VersionOpen == <<"#", "#", " ", "[">>
VersionClose == <<"]", " ", "-", " ">>
HeadingMark == <<"#", "#", "#", " ">>
OtherHeading == <<"#", "#", "#", " ", "O", "t", "h", "e", "r", " ", "C", "h",
    "a", "n", "g", "e", "s">>
BulletMark == <<"-", " ">>
HashOpen == <<" ", "(", "[">>
HashClose == <<"]", ")">>

\* "- {cleaned_message} ([{hash}])"
BulletLine(commit) ==
    BulletMark \o commit.cleaned_message \o HashOpen \o commit.hash \o HashClose

BulletLines(group) == [k \in 1..Len(group) |-> BulletLine(group[k])]

\* for commit_type in self.commit_types.keys(): ...
RECURSIVE TypeLoop(_, _, _)
TypeLoop(k, grouped, lines) ==
    IF k > Len(commit_types) THEN lines
    ELSE LET group == grouped[commit_types[k].key]
         IN  IF group # << >>
             THEN TypeLoop(k + 1, grouped,
                      lines \o <<HeadingMark \o commit_types[k].title, << >> >>
                            \o BulletLines(group) \o << << >> >>)
             ELSE TypeLoop(k + 1, grouped, lines)

generate_version_section(version, date, commit_list) ==
    LET head == <<VersionOpen \o version \o VersionClose \o date, << >> >>
        Others(grouped, lines) ==
            IF grouped[Other] # << >>
            THEN lines \o <<OtherHeading, << >> >>
                       \o BulletLines(grouped[Other]) \o << << >> >>
            ELSE lines
        Typed(grouped) == Others(grouped, TypeLoop(1, grouped, head))
    IN  Join(Typed(group_commits_by_type(commit_list)), <<"\n">>)

(***************************************************************************)
(* Rendering one section from a list of commits.                           *)
(***************************************************************************)
SampleMessages ==
    {<<"f", "e", "a", "t", ":", " ", "a">>,
     <<"f", "i", "x", "(", "x", ")", ":", " ", "b">>,
     <<"F", "i", "x", ":", " ", "c">>,
     <<"c", "i", ":", " ", "d">>,
     <<"w", "i", "p", " ", "e">>}

SampleHash == <<"a", "b", "c", "1", "2", "3">>

SampleAuthor == <<"a", "n", "n">>

SampleDate == <<"2", "0", "2", "4", "-", "0", "1", "-", "0", "2">>

Unreleased == <<"U", "n", "r", "e", "l", "e", "a", "s", "e", "d">>

SampleTag == <<"v", "1">>

\* the k-th commit of a list, with a hash of its own
SampleCommit(k, m) ==
    [hash |-> SampleHash \o <<ToString(k)>>, message |-> m,
     author |-> SampleAuthor, date |-> SampleDate]

CommitLists ==
    UNION {{[k \in 1..n |-> SampleCommit(k, ms[k])] : ms \in [1..n -> SampleMessages]}
           : n \in 0..MaxCommits}

NotRendered == <<"?">>

Render ==
    /\ section = NotRendered
    /\ \E version \in {Unreleased, SampleTag} :
           section' = generate_version_section(version, SampleDate, commits)
    /\ UNCHANGED <<calcVars, message, catResult, commits, repo, run>>

SpecRenderInit ==
    /\ CalcIdle
    /\ message = << >>
    /\ catResult = Pending
    /\ commits \in CommitLists
    /\ section = NotRendered
    /\ repo = << >>
    /\ run = << >>

SpecRender == SpecRenderInit /\ [][Render]_vars

(***************************************************************************)
(* Properties of a rendered section.                                       *)
(***************************************************************************)
SectionLines == Split(section, "\n")

IsHeading(line) == StartsWith(line, <<"#", "#", "#", " ">>)
IsBullet(line) == StartsWith(line, <<"-", " ">>)

\* the headings in the order the claim fixes, "Other Changes" last
DisplayOrder ==
    <<<<<<"f", "e", "a", "t">>,
        <<"F", "e", "a", "t", "u", "r", "e", "s">>>>,
      <<<<"f", "i", "x">>,
        <<"B", "u", "g", " ", "F", "i", "x", "e", "s">>>>,
      <<<<"d", "o", "c", "s">>,
        <<"D", "o", "c", "u", "m", "e", "n", "t", "a", "t", "i", "o", "n">>>>,
      <<<<"s", "t", "y", "l", "e">>,
        <<"S", "t", "y", "l", "e", "s">>>>,
      <<<<"r", "e", "f", "a", "c", "t", "o", "r">>,
        <<"C", "o", "d", "e", " ", "R", "e", "f", "a", "c", "t", "o", "r", "i",
          "n", "g">>>>,
      <<<<"p", "e", "r", "f">>,
        <<"P", "e", "r", "f", "o", "r", "m", "a", "n", "c", "e">>>>,
      <<<<"t", "e", "s", "t">>,
        <<"T", "e", "s", "t", "s">>>>,
      <<<<"b", "u", "i", "l", "d">>,
        <<"B", "u", "i", "l", "d", " ", "S", "y", "s", "t", "e", "m">>>>,
      <<<<"c", "i">>,
        <<"C", "I", "/", "C", "D">>>>,
      <<<<"c", "h", "o", "r", "e">>,
        <<"C", "h", "o", "r", "e", "s">>>>,
      <<<<"r", "e", "v", "e", "r", "t">>,
        <<"R", "e", "v", "e", "r", "t", "s">>>>,
      <<<<"o", "t", "h", "e", "r">>,
        <<"O", "t", "h", "e", "r", " ", "C", "h", "a", "n", "g", "e", "s">>>>>>

HeadingOf(t) ==
    LET k == CHOOSE j \in 1..Len(DisplayOrder) : DisplayOrder[j][1] = t
    IN  <<"#", "#", "#", " ">> \o DisplayOrder[k][2]

RankOf(line) ==
    CHOOSE j \in 1..Len(DisplayOrder) :
        line = <<"#", "#", "#", " ">> \o DisplayOrder[j][2]

HeadingPositions == {p \in 1..Len(SectionLines) : IsHeading(SectionLines[p])}

\* the bullets between the heading at line p and the next heading
RECURSIVE BulletsFrom(_)
BulletsFrom(p) ==
    IF p > Len(SectionLines) \/ IsHeading(SectionLines[p]) THEN << >>
    ELSE IF IsBullet(SectionLines[p]) THEN <<SectionLines[p]>> \o BulletsFrom(p + 1)
    ELSE BulletsFrom(p + 1)

\* the commits categorize_commit assigns to type t, in input order
RECURSIVE CommitsOfType(_, _)
CommitsOfType(list, t) ==
    IF list = << >> THEN << >>
    ELSE IF categorize_commit(Head(list).message).type = t
         THEN <<Head(list)>> \o CommitsOfType(Tail(list), t)
         ELSE CommitsOfType(Tail(list), t)

ExpectedBullet(commit) ==
    <<"-", " ">> \o categorize_commit(commit.message).cleaned
        \o <<" ", "(", "[">> \o commit.hash \o <<"]", ")">>

\* C10: in a rendered section the category headings come in the fixed
\* order with "Other Changes" last; a heading is there only for a category
\* that has a commit; every commit gives exactly one bullet, under the
\* heading of the category categorize_commit assigns to its message, the
\* commits of one category keeping their input order.
C10_Render ==
    section # NotRendered =>
        /\ \A p \in HeadingPositions :
               \E j \in 1..Len(DisplayOrder) :
                   SectionLines[p] = HeadingOf(DisplayOrder[j][1])
        /\ \A p, q \in HeadingPositions :
               p < q => RankOf(SectionLines[p]) < RankOf(SectionLines[q])
        /\ \A p \in HeadingPositions :
               CommitsOfType(commits, DisplayOrder[RankOf(SectionLines[p])][1])
                   # << >>
        /\ \A t \in AllTypes :
               LET mine == CommitsOfType(commits, t)
               IN  mine # << >> =>
                       \E p \in HeadingPositions :
                           /\ SectionLines[p] = HeadingOf(t)
                           /\ BulletsFrom(p + 1) =
                                  [k \in 1..Len(mine) |-> ExpectedBullet(mine[k])]
        /\ Cardinality({p \in 1..Len(SectionLines) : IsBullet(SectionLines[p])})
               = Len(commits)

C10_Witness ==
    /\ section # NotRendered
    /\ Len(commits) = 3
    /\ commits[1].message = <<"w", "i", "p", " ", "e">>
    /\ commits[2].message = <<"F", "i", "x", ":", " ", "c">>
    /\ commits[3].message = <<"f", "i", "x", "(", "x", ")", ":", " ", "b">>
    /\ Cardinality(HeadingPositions) = 2

(***************************************************************************)
(* The external git tool.  An invocation through subprocess.run with       *)
(* check=True either returns the standard output ("ok"), or raises         *)
(* CalledProcessError because git exited with a failure status, or raises  *)
(* OSError because the program could not be started at all.                *)
(***************************************************************************)
Ok(stdout) == [status |-> "ok", stdout |-> stdout]
Failed(status) == [status |-> status, stdout |-> << >>]

Value(v) == [exc |-> "none", val |-> v]
Propagate(exc) == [exc |-> exc, val |-> << >>]

NonEmpty(s) == s # << >>

DotDot == <<".", ".">>
Head_ == <<"H", "E", "A", "D">>
Today == <<"2", "0", "2", "6", "-", "1", "1", "-", "0", "1">>
TagOne == <<"v", "1">>
TagTwo == <<"v", "2">>
TagThree == <<"v", "3">>
TagDate == <<"2", "0", "2", "4", "-", "0", "1", "-", "0", "2", "\n">>

CommitLine(hash, subject) ==
    hash \o <<"|">> \o subject
        \o <<"|", "a", "n", "n", "|", "2", "0", "2", "4", "-", "0", "1", "-", "0", "2">>

\* the subject names the range, so that a bullet tells which range was read
OneCommit(ref_range) ==
    CommitLine(<<"1", "1", "1", "1", "1", "1", "1", "a", "a", "a">>,
               <<"f", "e", "a", "t", ":", " ">> \o ref_range)

TwoCommits(ref_range) ==
    CommitLine(<<"2", "2", "2", "2", "2", "2", "2", "b", "b", "b">>,
               <<"f", "i", "x", "(", "x", ")", ":", " ">> \o ref_range)
        \o <<"\n">> \o <<"j", "u", "n", "k", "|", "l", "i", "n", "e">> \o <<"\n">>
        \o CommitLine(<<"3", "3", "3", "3", "3", "3", "3", "c", "c", "c">>,
                      <<"w", "i", "p", " ">> \o ref_range)

\* what git log answers for a revision range: the repository records the
\* kind of answer, the lines name the range; a range the repository does not
\* know is a failure status
LogAnswer(r, ref_range) ==
    IF ref_range \notin DOMAIN r.log THEN Failed("CalledProcessError")
    ELSE LET kind == r.log[ref_range]
         IN  IF kind = "empty" THEN Ok(<< >>)
             ELSE IF kind = "one" THEN Ok(OneCommit(ref_range))
             ELSE IF kind = "two" THEN Ok(TwoCommits(ref_range))
             ELSE IF kind = "junk"
             THEN Ok(<<"j", "u", "n", "k", "|", "l", "i", "n", "e">>)
             ELSE Failed(kind)

get_git_tags(r) ==
    IF r.tag.status = "CalledProcessError" THEN Value(<< >>)
    ELSE IF r.tag.status # "ok" THEN Propagate(r.tag.status)
    ELSE Value(SelectSeq(Split(Strip(r.tag.stdout), "\n"), NonEmpty))

\* the commits parsed from the lines of git log
RECURSIVE ParseLines(_, _)
ParseLines(lines, parsed) ==
    IF lines = << >> THEN parsed
    ELSE LET Line(parts) ==
                 IF Len(parts) >= 4
                 THEN ParseLines(Tail(lines),
                          Append(parsed, [hash |-> Prefix(parts[1], 7),
                                          message |-> parts[2],
                                          author |-> parts[3],
                                          date |-> parts[4]]))
                 ELSE ParseLines(Tail(lines), parsed)
         IN  IF Head(lines) = << >> THEN ParseLines(Tail(lines), parsed)
             ELSE Line(Split(Head(lines), "|"))

\* get_commits_between reading all history up to to_ref, whatever from_ref
get_commits_between_to_ref_only(r, from_ref, to_ref) ==
    LET Answered(answer) ==
            IF answer.status = "CalledProcessError" THEN Value(<< >>)
            ELSE IF answer.status # "ok" THEN Propagate(answer.status)
            ELSE Value(ParseLines(Split(Strip(answer.stdout), "\n"), << >>))
    IN  Answered(LogAnswer(r, to_ref))

\* from_ref is << >> for None
get_commits_between(r, from_ref, to_ref) ==
    LET ref_range == IF from_ref # << >> THEN from_ref \o DotDot \o to_ref
                     ELSE to_ref
        Answered(answer) ==
            IF answer.status = "CalledProcessError" THEN Value(<< >>)
            ELSE IF answer.status # "ok" THEN Propagate(answer.status)
            ELSE Value(ParseLines(Split(Strip(answer.stdout), "\n"), << >>))
    IN  Answered(LogAnswer(r, ref_range))

\* git log -1 --format=%ad --date=short tag, inside generate_changelog
tag_date(r, tag) ==
    LET answer == IF tag \in DOMAIN r.date THEN r.date[tag]
                  ELSE Failed("CalledProcessError")
    IN  IF answer.status = "CalledProcessError" THEN Value(Today)
        ELSE IF answer.status # "ok" THEN Propagate(answer.status)
        ELSE Value(Strip(answer.stdout))

\* list.append(item) in the place of list.insert(index, item)
InsertAtEnd(lines, index, item) == Append(lines, item)

\* list.insert(index, item), index counted from 0
Insert(lines, index, item) ==
    IF index >= Len(lines) THEN Append(lines, item)
    ELSE SubSeq(lines, 1, index) \o <<item>> \o SubSeq(lines, index + 1, Len(lines))

\* the seven lines generate_changelog starts from
HeaderLines ==
    <<<<"#", " ", "C", "h", "a", "n", "g", "e", "l", "o", "g">>,
      << >>,
      <<"A", "l", "l", " ", "n", "o", "t", "a", "b", "l", "e", " ", "c", "h",
        "a", "n", "g", "e", "s", " ", "t", "o", " ", "t", "h", "i", "s",
        " ", "p", "r", "o", "j", "e", "c", "t", " ", "w", "i", "l", "l",
        " ", "b", "e", " ", "d", "o", "c", "u", "m", "e", "n", "t", "e",
        "d", " ", "i", "n", " ", "t", "h", "i", "s", " ", "f", "i", "l",
        "e", ".">>,
      << >>,
      <<"T", "h", "e", " ", "f", "o", "r", "m", "a", "t", " ", "i", "s", " ",
        "b", "a", "s", "e", "d", " ", "o", "n", " ", "[", "K", "e", "e",
        "p", " ", "a", " ", "C", "h", "a", "n", "g", "e", "l", "o", "g",
        "]", "(", "h", "t", "t", "p", "s", ":", "/", "/", "k", "e", "e",
        "p", "a", "c", "h", "a", "n", "g", "e", "l", "o", "g", ".", "c",
        "o", "m", "/", "e", "n", "/", "1", ".", "0", ".", "0", "/", ")",
        ",">>,
      <<"a", "n", "d", " ", "t", "h", "i", "s", " ", "p", "r", "o", "j", "e",
        "c", "t", " ", "a", "d", "h", "e", "r", "e", "s", " ", "t", "o",
        " ", "[", "S", "e", "m", "a", "n", "t", "i", "c", " ", "V", "e",
        "r", "s", "i", "o", "n", "i", "n", "g", "]", "(", "h", "t", "t",
        "p", "s", ":", "/", "/", "s", "e", "m", "v", "e", "r", ".", "o",
        "r", "g", "/", "s", "p", "e", "c", "/", "v", "2", ".", "0", ".",
        "0", ".", "h", "t", "m", "l", ")", ".">>,
      << >>>>

\* the loop over the tags writing a section for a tag without commits too
RECURSIVE TagLoopEveryTag(_, _, _, _)
TagLoopEveryTag(r, tags, i, lines) ==
    LET Dated(commit_list, date) ==
            IF date.exc # "none" THEN Propagate(date.exc)
            ELSE TagLoopEveryTag(r, tags, i + 1,
                     Append(lines,
                            generate_version_section(tags[i], date.val,
                                                     commit_list)))
        Found(found) ==
            IF found.exc # "none" THEN Propagate(found.exc)
            ELSE Dated(found.val, tag_date(r, tags[i]))
    IN  IF i > Len(tags) THEN Value(lines)
        ELSE Found(get_commits_between(
                       r,
                       IF i + 1 <= Len(tags) THEN tags[i + 1] ELSE << >>,
                       tags[i]))

\* for i, tag in enumerate(tags): ...   (i counted from 1 here)
RECURSIVE TagLoop(_, _, _, _)
TagLoop(r, tags, i, lines) ==
    LET Dated(commit_list, date) ==
            IF date.exc # "none" THEN Propagate(date.exc)
            ELSE TagLoop(r, tags, i + 1,
                     Append(lines,
                            generate_version_section(tags[i], date.val,
                                                     commit_list)))
        Found(found) ==
            IF found.exc # "none" THEN Propagate(found.exc)
            ELSE IF found.val = << >> THEN TagLoop(r, tags, i + 1, lines)
            ELSE Dated(found.val, tag_date(r, tags[i]))
    IN  IF i > Len(tags) THEN Value(lines)
        ELSE Found(get_commits_between(
                       r,
                       IF i + 1 <= Len(tags) THEN tags[i + 1] ELSE << >>,
                       tags[i]))

generate_changelog(r) ==
    LET Section(commit_list) ==
            generate_version_section(Unreleased, Today, commit_list)
        WithUnreleased(lines, unreleased) ==
            IF unreleased.exc # "none" THEN Propagate(unreleased.exc)
            ELSE IF unreleased.val # << >>
            THEN Value(Join(Insert(Insert(lines, 7, Section(unreleased.val)),
                                   8, << >>),
                            <<"\n">>))
            ELSE Value(Join(lines, <<"\n">>))
        Tagged(tags, tagged) ==
            IF tagged.exc # "none" THEN Propagate(tagged.exc)
            ELSE WithUnreleased(tagged.val,
                                get_commits_between(r, tags[1], Head_))
        Untagged(all_commits) ==
            IF all_commits.exc # "none" THEN Propagate(all_commits.exc)
            ELSE IF all_commits.val # << >>
            THEN Value(Join(Append(HeaderLines, Section(all_commits.val)),
                            <<"\n">>))
            ELSE Value(Join(HeaderLines, <<"\n">>))
        Listed(tags) ==
            IF tags.exc # "none" THEN Propagate(tags.exc)
            ELSE IF tags.val # << >>
            THEN Tagged(tags.val, TagLoop(r, tags.val, 1, HeaderLines))
            ELSE Untagged(get_commits_between(r, << >>, Head_))
    IN  Listed(get_git_tags(r))

\* the file save_changelog writes
save_changelog(r) == generate_changelog(r)

NoFile == <<"?">>

\* main(): 0 when save_changelog returns, 1 when anything is raised
main(r) ==
    LET Saved(saved) ==
            IF saved.exc = "none" THEN [exit |-> 0, file |-> saved.val]
            ELSE [exit |-> 1, file |-> NoFile]
    IN  Saved(save_changelog(r))

(***************************************************************************)
(* Repositories: what git answers to the tag listing, to the log of each   *)
(* range the run can ask for, and to the date lookup of each tag.          *)
(***************************************************************************)
Statuses == {"CalledProcessError", "OSError"}

LogKinds == {"empty", "one", "two", "junk"} \cup Statuses

DateAnswers == {Ok(TagDate)} \cup {Failed(s) : s \in Statuses}

TagCases ==
    {[answer |-> Ok(<< >>), tags |-> << >>],
     [answer |-> Failed("CalledProcessError"), tags |-> << >>],
     [answer |-> Failed("OSError"), tags |-> << >>],
     [answer |-> Ok(TagOne \o <<"\n">>), tags |-> <<TagOne>>],
     [answer |-> Ok(TagTwo \o <<"\n">> \o TagOne \o <<"\n">>),
      tags |-> <<TagTwo, TagOne>>],
     [answer |-> Ok(TagThree \o <<"\n">> \o TagTwo \o <<"\n">> \o TagOne),
      tags |-> <<TagThree, TagTwo, TagOne>>]}

\* the ranges generate_changelog reads for a list of tags
RangesOf(tags) ==
    IF tags = << >> THEN {Head_}
    ELSE {tags[Len(tags)], tags[1] \o DotDot \o Head_}
            \cup {tags[i + 1] \o DotDot \o tags[i] : i \in 1..(Len(tags) - 1)}

TagSet(tags) == {tags[i] : i \in 1..Len(tags)}

\* an answer to the date lookup of each tag; with three tags the lookups
\* answer alike
DateFunctions(tags) ==
    IF Len(tags) <= 2 THEN [TagSet(tags) -> DateAnswers]
    ELSE {[t \in TagSet(tags) |-> a] : a \in DateAnswers}

Repositories ==
    UNION {[tag : {c.answer},
            log : [RangesOf(c.tags) -> LogKinds],
            date : DateFunctions(c.tags)] : c \in TagCases}

NotRun == [exit |-> -1, file |-> NoFile]

Main ==
    /\ run = NotRun
    /\ run' = main(repo)
    /\ UNCHANGED <<calcVars, message, catResult, commits, section, repo>>

SpecMainInit ==
    /\ CalcIdle
    /\ message = << >>
    /\ catResult = Pending
    /\ commits = << >>
    /\ section = NotRendered
    /\ repo \in Repositories
    /\ run = NotRun

SpecMain == SpecMainInit /\ [][Main]_vars

(***************************************************************************)
(* Properties of a changelog run.                                          *)
(***************************************************************************)
AllFailures(r) ==
    {r.tag.status} \cup {r.log[x] : x \in DOMAIN r.log}
        \cup {r.date[x].status : x \in DOMAIN r.date}

Emptied(answer) == IF answer.status = "ok" THEN answer ELSE Ok(<< >>)

\* the repository whose failing tag listing and failing logs answer nothing
\* instead, and whose failing date lookups fail with a status
WithoutFailures(r) ==
    [tag |-> Emptied(r.tag),
     log |-> [x \in DOMAIN r.log |->
                 IF r.log[x] \in Statuses THEN "empty" ELSE r.log[x]],
     date |-> [x \in DOMAIN r.date |->
                  IF r.date[x].status = "ok" THEN r.date[x]
                  ELSE Failed("CalledProcessError")]]

\* C3: whatever invocations of git fail, the run is not aborted: each
\* failure is taken as an empty answer, generate_changelog returns a text
\* and main finishes with success.
C3_NeverFatal ==
    run # NotRun =>
        /\ run.exit = 0
        /\ run.file # NoFile
        /\ run.file = main(WithoutFailures(repo)).file

\* What holds of the code: the same, for the failures that are a failure
\* status of git (CalledProcessError).
C3_StatusFailuresTolerated ==
    (run # NotRun /\ "OSError" \notin AllFailures(repo)) =>
        /\ run.exit = 0
        /\ run.file # NoFile
        /\ run.file = main(WithoutFailures(repo)).file

\* A run that met a failure status of git after a successful tag listing and
\* still wrote version sections.
C3_StatusFailuresReached ==
    /\ run # NotRun
    /\ run.exit = 0
    /\ "CalledProcessError" \in AllFailures(repo)
    /\ repo.tag.status = "ok"
    /\ Len(run.file) > Len(Join(HeaderLines, <<"\n">>))

(***************************************************************************)
(* Reading a changelog text: lines are given by the position they start    *)
(* at, version headings by the "## [" they start with.                     *)
(***************************************************************************)
Newlines(text) == {q \in 1..Len(text) : text[q] = "\n"}

LineStarts(text) == {1} \cup {q + 1 : q \in Newlines(text)}

\* the last position of the line that starts at s (s - 1 for an empty line)
LineEnd(text, s) ==
    LET later == {q \in Newlines(text) : q >= s}
    IN  IF later = {} THEN Len(text)
        ELSE (CHOOSE q \in later : \A p \in later : q <= p) - 1

LineAt(text, s) == SubSeq(text, s, LineEnd(text, s))

StartsAt(text, s, prefix) ==
    /\ s + Len(prefix) - 1 <= Len(text)
    /\ SubSeq(text, s, s + Len(prefix) - 1) = prefix

\* where the version headings start
VersionStarts(text) ==
    {s \in LineStarts(text) : StartsAt(text, s, VersionOpen)}

\* where the heading of one version starts
HeadingStarts(text, version) ==
    {s \in LineStarts(text) :
        StartsAt(text, s, VersionOpen \o version \o VersionClose)}

\* the bullets between the heading of a version and the next version heading
BulletsOf(text, version) ==
    LET versions == VersionStarts(text)
        starts   == LineStarts(text)
    IN  UNION {{LineAt(text, b) :
                   b \in {c \in starts :
                             /\ c > s
                             /\ StartsAt(text, c, BulletMark)
                             /\ \A v \in versions : ~(s < v /\ v < c)}}
               : s \in HeadingStarts(text, version)}

\* the tags git listed
TagsOf(r) == (CHOOSE c \in TagCases : c.answer = r.tag).tags

Versions(tags) == TagSet(tags) \cup {Unreleased}

\* the range a section is to be built from: a tag against the tag listed
\* after it, the last tag against nothing, Unreleased against the first tag
RangeFor(tags, version) ==
    IF version = Unreleased
    THEN IF tags = << >> THEN Head_ ELSE tags[1] \o DotDot \o Head_
    ELSE LET i == CHOOSE k \in 1..Len(tags) : tags[k] = version
         IN  IF i = Len(tags) THEN tags[i]
             ELSE tags[i + 1] \o DotDot \o tags[i]

\* the bullets of the commits git log prints for a range
ExpectedBullets(r, ref_range) ==
    IF r.log[ref_range] = "one"
    THEN {<<"-", " ">> \o ref_range
            \o <<" ", "(", "[", "1", "1", "1", "1", "1", "1", "1", "]", ")">>}
    ELSE IF r.log[ref_range] = "two"
    THEN {<<"-", " ", "*", "*", "x", "*", "*", ":", " ">> \o ref_range
            \o <<" ", "(", "[", "2", "2", "2", "2", "2", "2", "2", "]", ")">>,
          <<"-", " ", "w", "i", "p", " ">> \o ref_range
            \o <<" ", "(", "[", "3", "3", "3", "3", "3", "3", "3", "]", ")">>}
    ELSE {}

\* C11: in the text of a run that finishes, the bullets under the heading of
\* each tag are exactly the commits of the range from the tag listed after it
\* to the tag itself (of the tag alone for the last tag listed), and the
\* bullets under Unreleased are exactly the commits of the range from the
\* first tag to HEAD (of HEAD alone when no tag is listed).
C11_Ranges ==
    run.exit = 0 =>
        \A version \in Versions(TagsOf(repo)) :
            BulletsOf(run.file, version)
                = ExpectedBullets(repo, RangeFor(TagsOf(repo), version))

C11_Witness ==
    /\ run.exit = 0
    /\ Len(TagsOf(repo)) = 3
    /\ \A x \in DOMAIN repo.log : repo.log[x] \in {"one", "two"}
    /\ \E x \in DOMAIN repo.log : repo.log[x] = "one"
    /\ \E x \in DOMAIN repo.log : repo.log[x] = "two"
    /\ \A version \in Versions(TagsOf(repo)) :
           BulletsOf(run.file, version) # {}

\* the query for a range returned at least one commit
Returned(r, ref_range) == r.log[ref_range] \in {"one", "two"}

\* C12: in the text of a run that finishes, the heading of a version (a tag
\* or Unreleased) is there, once, if and only if the query for the range of
\* its section returned at least one commit, no other version heading is
\* there, and the text is the header alone when no query returned a commit.
C12_EmptyOmitted ==
    run.exit = 0 =>
        /\ \A version \in Versions(TagsOf(repo)) :
               /\ HeadingStarts(run.file, version) # {}
                      <=> Returned(repo, RangeFor(TagsOf(repo), version))
               /\ Cardinality(HeadingStarts(run.file, version)) <= 1
        /\ VersionStarts(run.file)
               = UNION {HeadingStarts(run.file, version) :
                           version \in Versions(TagsOf(repo))}
        /\ (\A x \in DOMAIN repo.log : ~Returned(repo, x))
               => run.file = Join(HeaderLines, <<"\n">>)

C12_Witness ==
    /\ run.exit = 0
    /\ Len(TagsOf(repo)) = 3
    /\ \E x \in DOMAIN repo.log : repo.log[x] = "junk"
    /\ \E x \in DOMAIN repo.log : repo.log[x] = "CalledProcessError"
    /\ \E x \in DOMAIN repo.log : repo.log[x] = "empty"
    /\ Cardinality(VersionStarts(run.file)) = 1

\* the number of the line that starts at s, counted from 1
LineNumber(text, s) == Cardinality({q \in Newlines(text) : q < s}) + 1

\* C14: in the text of a run that finishes, the seven header lines come
\* first, unchanged; every version heading starts below them; the heading of
\* Unreleased, when there, is the line next to the header and above every
\* tag heading; and the headings of the tags come in the order the tags are
\* listed, newest first.
C14_Order ==
    run.exit = 0 =>
        /\ StartsAt(run.file, 1, Join(HeaderLines, <<"\n">>))
        /\ \A s \in VersionStarts(run.file) :
               LineNumber(run.file, s) > Len(HeaderLines)
        /\ \A s \in HeadingStarts(run.file, Unreleased) :
               /\ LineNumber(run.file, s) = Len(HeaderLines) + 1
               /\ \A v \in VersionStarts(run.file) : s <= v
        /\ \A i, j \in 1..Len(TagsOf(repo)) :
               i < j =>
                   \A s \in HeadingStarts(run.file, TagsOf(repo)[i]) :
                       \A t \in HeadingStarts(run.file, TagsOf(repo)[j]) :
                           s < t

C14_Witness ==
    /\ run.exit = 0
    /\ Len(TagsOf(repo)) = 3
    /\ \A x \in DOMAIN repo.log : repo.log[x] = "two"
    /\ HeadingStarts(run.file, Unreleased) # {}
    /\ Cardinality(VersionStarts(run.file)) = 4

====
